---- MODULE Spec2Model ----
(***************************************************************************)
(* Model of the hybrid autocomplete hook, src/src/hooks/                   *)
(* useHybridAutocomplete.ts: the debounce effect, performSearch, the two   *)
(* fetch helpers with their shared rate-limit reference, and the           *)
(* environment they run in (the props and language context that re-run     *)
(* the effect, the clock, and the network answering the fetch calls).      *)
(*                                                                         *)
(* JavaScript values are encoded as follows.  null and undefined are the   *)
(* strings Null and Undefined; an absent property is a field that is not   *)
(* in the record's DOMAIN; a JSON array is the record [array |-> <<..>>];  *)
(* a term is a sequence of characters, so that trim() and length are       *)
(* computed; an Error is [name, parts], its message being the              *)
(* concatenation of parts, and message.includes(s) tests the parts.        *)
(***************************************************************************)
EXTENDS Integers, Sequences, FiniteSets, TLC

\* ------------------------------------------------------------------ bounds
\* Largest value of Date.now() (milliseconds after the mount).
MaxClock == 31000

\* ------------------------------------------------------- program constants
minLength == 2
retryAfter == 30

Null == "<null>"
Undefined == "<undefined>"

\* Amounts (ms) by which the clock advances between two events.
ClockSteps == {14500, 15500}

\* -------------------------------------------------------------- the inputs
\* Raw terms the component passes to the hook; '' is the initial one.
Terms == { <<>>, <<" ", "m", " ">>, <<"m", "a">>, <<"z", "z">> }


\* Dictionary entries {id, name, preferred} (hook header, lines 3-5).
EntrySeaLong == [id |-> "abc", name |-> "Underground Sea", preferred |-> "mare sotterraneo"]
EntrySea == [id |-> "abc", name |-> "Underground Sea", preferred |-> "mare"]
EntryVault == [id |-> "xyz", name |-> "Mana Vault", preferred |-> "magazzino"]

\* Values of the language context's dictionary: fuseDictionary null, built
\* over no entry, built over entries of which two share an id.
\* idToPreferredName is the context's map over the same entries.
NoDictionary == [built |-> FALSE, entries |-> <<>>]
EmptyDictionary == [built |-> TRUE, entries |-> <<>>]
FullDictionary == [built |-> TRUE, entries |-> <<EntrySeaLong, EntrySea, EntryVault>>]

\* The snapshots of the language context: English (with or without a
\* dictionary left from another language), Italian while its dictionary
\* loads (with or without a previous one), Italian after the load.
Contexts ==
  { [lang |-> "en", loading |-> FALSE, dict |-> NoDictionary],
    [lang |-> "en", loading |-> FALSE, dict |-> FullDictionary],
    [lang |-> "it", loading |-> TRUE, dict |-> NoDictionary],
    [lang |-> "it", loading |-> TRUE, dict |-> FullDictionary],
    [lang |-> "it", loading |-> FALSE, dict |-> NoDictionary],
    [lang |-> "it", loading |-> FALSE, dict |-> EmptyDictionary],
    [lang |-> "it", loading |-> FALSE, dict |-> FullDictionary] }

\* The queries under which the fuzzy index finds a name ('preferred' and
\* 'name' are both indexed): modelled as case-insensitive prefixes.
IndexedUnder(name) ==
  CASE name = "mare sotterraneo" -> {"ma", "mar"}
    [] name = "mare" -> {"ma", "mar"}
    [] name = "magazzino" -> {"ma", "mag"}
    [] name = "Mana Vault" -> {"ma", "man"}
    [] name = "Underground Sea" -> {"un", "und"}
    [] OTHER -> {}

\* ------------------------------------------------------------ JS helpers
RECURSIVE TrimStart(_)
TrimStart(s) == IF s # <<>> /\ Head(s) = " " THEN TrimStart(Tail(s)) ELSE s

RECURSIVE TrimEnd(_)
TrimEnd(s) ==
  IF s # <<>> /\ s[Len(s)] = " " THEN TrimEnd(SubSeq(s, 1, Len(s) - 1)) ELSE s

\* String.prototype.trim
Trim(s) == TrimEnd(TrimStart(s))

\* The characters of a term as one string (the query handed to the index).
RECURSIVE Str(_)
Str(s) == IF s = <<>> THEN "" ELSE Head(s) \o Str(Tail(s))

\* r.k for a string-valued property that may be absent.
Get(r, k) == IF k \in DOMAIN r THEN r[k] ELSE Undefined

\* Truthiness of a string-valued property.
Truthy(v) == v \notin {Undefined, Null, ""}

\* a || b on string values.
OrElse(a, b) == IF Truthy(a) THEN a ELSE b

\* r.cached || false
CachedOf(r) == IF "cached" \in DOMAIN r THEN r.cached ELSE FALSE

\* r.success as a condition
SuccessOf(r) == IF "success" \in DOMAIN r THEN r.success ELSE FALSE

\* Array.isArray(r.data)
DataIsArray(r) == "data" \in DOMAIN r /\ "array" \in DOMAIN r.data

\* { ...r, ...ext }
Spread(r, ext) ==
  [k \in DOMAIN r \cup DOMAIN ext |-> IF k \in DOMAIN ext THEN ext[k] ELSE r[k]]

\* Mutant of CeilSeconds: the seconds are rounded down.
FloorSeconds(ms) == ms \div 1000

\* Math.ceil(ms / 1000) for ms >= 0
CeilSeconds(ms) == (ms + 999) \div 1000

\* new Error(...).message from its parts
RECURSIVE Message(_)
Message(parts) == IF parts = <<>> THEN "" ELSE Head(parts) \o Message(Tail(parts))

\* err.message.includes(s), s being one of the parts the code looks for
Includes(err, s) == \E i \in 1..Len(err.parts) : err.parts[i] = s

\* --------------------------------------------------- what the network sends
\* Items of the autocomplete endpoint: printings and sets, told apart by type.
PrintingSea ==
  [printing_id |-> "p1", oracle_id |-> "abc", name |-> "Underground Sea",
   set_name |-> "Alpha", collector_number |-> "1", image_uri_small |-> "s.jpg"]
PrintingBolt ==
  [printing_id |-> "p2", oracle_id |-> "bolt", name |-> "Lightning Bolt",
   set_name |-> "Alpha", collector_number |-> "2", image_uri_small |-> Null]
SetAlpha == [type |-> "set", code |-> "lea", name |-> "Alpha"]

\* Cards of the paginated by-oracle-ids endpoint.
CardSea ==
  [printing_id |-> "p1", oracle_id |-> "abc", name |-> "Underground Sea",
   set_name |-> "Alpha", collector_number |-> "1",
   front_image_url |-> "f.jpg", image_uri_normal |-> "n.jpg"]
CardBolt ==
  [printing_id |-> "p2", oracle_id |-> "bolt", name |-> "Lightning Bolt",
   image_uri_small |-> "s.jpg", image_uri_normal |-> "n.jpg"]
CardNoPrinting == [oracle_id |-> "xyz", name |-> "Mana Vault"]
CardNoOracle == [printing_id |-> "p4", name |-> "Mana Vault"]
CardVault ==
  [printing_id |-> "p5", oracle_id |-> "xyz", name |-> "Mana Vault",
   image_uri_small |-> Null, image_uri_normal |-> "n.jpg"]
CardPlain == [printing_id |-> "p6", oracle_id |-> "xyz", name |-> "Mana Vault"]

\* JSON bodies of the autocomplete endpoint (2xx).
TermBodies ==
  { [success |-> TRUE, cached |-> TRUE, data |-> [array |-> <<PrintingSea, SetAlpha>>]],
    [success |-> TRUE, data |-> [array |-> <<>>]],
    [success |-> FALSE, error |-> "Termine non valido"],
    [success |-> TRUE] }

\* JSON bodies of the by-oracle-ids endpoint (2xx): the paginated envelope,
\* the flat one, and others.
IdsBodies ==
  { [success |-> TRUE, cached |-> TRUE,
     data |-> [pagination |-> "page 1",
               data |-> [array |-> <<CardSea, CardNoPrinting, CardBolt, CardNoOracle>>]]],
    [success |-> TRUE, data |-> [pagination |-> "page 1", data |-> [array |-> <<>>]]],
    [success |-> TRUE,
     data |-> [pagination |-> "page 1",
               data |-> [array |-> <<CardBolt, CardSea, CardVault, CardPlain>>]]],
    [success |-> TRUE, data |-> [array |-> <<SetAlpha, PrintingSea>>]],
    [success |-> FALSE, error |-> "ID non validi"],
    [success |-> TRUE, data |-> [total |-> "0"]] }

\* HTTP statuses the endpoints answer with.
Statuses == {200, 429, 500}

\* Retry-After headers a response may carry (Undefined for none); neither
\* helper reads the headers.
RetryHints == {Undefined, "120"}

\* TypeError messages of a fetch that fails at the transport.
TransportFailures == {"Failed to fetch", "Load failed"}

\* ------------------------------------------------------------ thrown errors
RateLimitError(seconds) ==
  [name |-> "Error",
   parts |-> <<"Troppe richieste", ". Attendi ", ToString(seconds), " secondi.">>]

HttpError(status) ==
  [name |-> "Error", parts |-> <<"HTTP error", "! status: ", ToString(status)>>]

TransportError(msg) == [name |-> "TypeError", parts |-> <<msg>>]

\* response.json() on a body that is not JSON
JsonError == [name |-> "SyntaxError", parts |-> <<"Unexpected token">>]

\* What fetch and response.json() reject with once the signal is aborted.
AbortError == [name |-> "AbortError", parts |-> <<"The user aborted a request.">>]

\* ------------------------------------------------------------------ state
VARIABLES
  mounted,            \* the component using the hook exists
  term,               \* the hook's first argument
  selectedLang,       \* useLanguage(): the selected language
  isLangLoading,      \* useLanguage(): the dictionary is being loaded
  dictionary,         \* useLanguage(): fuseDictionary / idToPreferredName
  results,            \* useState: results
  loading,            \* useState: loading
  error,              \* useState: error
  cached,             \* useState: cached
  translatedName,     \* useState: translatedName
  abortControllerRef, \* id of the current AbortController, 0 for null
  aborted,            \* ids of the controllers whose signal is aborted
  timeoutRef,         \* id of the timer set last, 0 for null
  timers,             \* the debounce timers that are pending
  rateLimitRef,       \* [blocked, until]
  now,                \* Date.now()
  wire,               \* the fetch calls the network has not answered yet
  throttledAt,        \* clock value at the last 429 response, -1 for none
  event               \* the handler that ran last, with what it was given

vars ==
  <<mounted, term, selectedLang, isLangLoading, dictionary, results, loading,
    error, cached, translatedName, abortControllerRef, aborted,
    timeoutRef, timers, rateLimitRef, now, wire, throttledAt, event>>

\* The five values the hook returns, as one record.
Observable ==
  [results |-> results, loading |-> loading, error |-> error, cached |-> cached,
   translatedName |-> translatedName]

\* ------------------------------------------------------------- rate limit
RateLimitReset == [blocked |-> FALSE, until |-> 0]

\* Mutant of EnglishBlocked: the cooldown lasts through its last instant.
EnglishBlockedInclusive(rl, t) == rl.blocked /\ t <= rl.until

\* fetchEnglishAutocomplete, the check before the request
EnglishBlocked(rl, t) == rl.blocked /\ t < rl.until

\* fetchByOracleIds, the check before the request
OracleBlocked(rl, t) == rl.blocked /\ t < rl.until

\* The error both checks throw.
WaitError(rl, t) == RateLimitError(CeilSeconds(rl.until - t))

\* Mutant of EnglishCheck: a rejected call starts the cooldown again.
EnglishCheckExtends(rl, t) ==
  IF EnglishBlocked(rl, t)
  THEN [thrown |-> WaitError(rl, t),
        rl |-> [blocked |-> TRUE, until |-> t + retryAfter * 1000]]
  ELSE [thrown |-> [name |-> Null], rl |-> rl]

\* fetchEnglishAutocomplete up to its fetch: what is thrown (Null for
\* nothing) and the rate-limit reference after it.
EnglishCheck(rl, t) ==
  IF EnglishBlocked(rl, t)
  THEN [thrown |-> WaitError(rl, t), rl |-> rl]
  ELSE [thrown |-> [name |-> Null], rl |-> rl]

\* fetchByOracleIds up to its fetch.
OracleCheck(rl, t) ==
  IF OracleBlocked(rl, t)
  THEN [thrown |-> WaitError(rl, t), rl |-> rl]
  ELSE [thrown |-> [name |-> Null], rl |-> rl]

\* response.ok
Ok(status) == status >= 200 /\ status <= 299

\* Mutant of EnglishStatus: the reset comes before the status check, so that
\* every response but a 429 resets the reference.
EnglishStatusResetsFirst(status, rl, t) ==
  IF ~Ok(status)
  THEN IF status = 429
       THEN [thrown |-> RateLimitError(retryAfter),
             rl |-> [blocked |-> TRUE, until |-> t + retryAfter * 1000]]
       ELSE [thrown |-> HttpError(status), rl |-> RateLimitReset]
  ELSE [thrown |-> [name |-> Null], rl |-> RateLimitReset]

\* fetchEnglishAutocomplete once the response (its status) is there:
\* what is thrown (Null for nothing) and the rate-limit reference after it.
EnglishStatus(status, rl, t) ==
  IF ~Ok(status)
  THEN IF status = 429
       THEN [thrown |-> RateLimitError(retryAfter),
             rl |-> [blocked |-> TRUE, until |-> t + retryAfter * 1000]]
       ELSE [thrown |-> HttpError(status), rl |-> rl]
  ELSE [thrown |-> [name |-> Null], rl |-> RateLimitReset]

\* Mutant of OracleStatus: every status that is not ok starts the cooldown.
OracleStatusBlocksOnError(status, rl, t) ==
  IF ~Ok(status)
  THEN [thrown |-> IF status = 429 THEN RateLimitError(retryAfter)
                   ELSE HttpError(status),
        rl |-> [blocked |-> TRUE, until |-> t + retryAfter * 1000]]
  ELSE [thrown |-> [name |-> Null], rl |-> RateLimitReset]

\* fetchByOracleIds once the response (its status) is there.
OracleStatus(status, rl, t) ==
  IF ~Ok(status)
  THEN IF status = 429
       THEN [thrown |-> RateLimitError(retryAfter),
             rl |-> [blocked |-> TRUE, until |-> t + retryAfter * 1000]]
       ELSE [thrown |-> HttpError(status), rl |-> rl]
  ELSE [thrown |-> [name |-> Null], rl |-> RateLimitReset]

\* ------------------------------------------- fetchByOracleIds, the body
\* Mutant of ValidCard: one of the two ids is enough.
ValidCardEither(card) ==
  Truthy(Get(card, "oracle_id")) \/ Truthy(Get(card, "printing_id"))

\* card.oracle_id && card.printing_id
ValidCard(card) == Truthy(Get(card, "oracle_id")) /\ Truthy(Get(card, "printing_id"))

\* Mutant of CardToPrinting: the normal image is preferred to the front one.
CardToPrintingPrefersNormal(card) ==
  [printing_id |-> Get(card, "printing_id"),
   oracle_id |-> Get(card, "oracle_id"),
   name |-> Get(card, "name"),
   set_name |-> OrElse(Get(card, "set_name"), ""),
   collector_number |-> OrElse(Get(card, "collector_number"), ""),
   image_uri_small |->
     OrElse(Get(card, "image_uri_small"),
       OrElse(Get(card, "image_uri_normal"),
         OrElse(Get(card, "front_image_url"), Null)))]

\* One Card as a Printing.
CardToPrinting(card) ==
  [printing_id |-> Get(card, "printing_id"),
   oracle_id |-> Get(card, "oracle_id"),
   name |-> Get(card, "name"),
   set_name |-> OrElse(Get(card, "set_name"), ""),
   collector_number |-> OrElse(Get(card, "collector_number"), ""),
   image_uri_small |->
     OrElse(Get(card, "image_uri_small"),
       OrElse(Get(card, "front_image_url"),
         OrElse(Get(card, "image_uri_normal"), Null)))]

\* Mutant of NormalizeOracle: a body that is not a success is passed on with
\* the error it carries.
NormalizeOracleForwardsError(responseData) ==
  IF /\ SuccessOf(responseData)
     /\ "data" \in DOMAIN responseData
     /\ DataIsArray(responseData.data)
  THEN LET cards == SelectSeq(responseData.data.data.array, ValidCard)
       IN [success |-> TRUE,
           cached |-> CachedOf(responseData),
           data |-> [array |-> [i \in 1..Len(cards) |-> CardToPrinting(cards[i])]]]
  ELSE IF SuccessOf(responseData) /\ DataIsArray(responseData)
       THEN responseData
       ELSE [success |-> FALSE, cached |-> FALSE,
             error |-> OrElse(Get(responseData, "error"),
                              "Formato risposta API non riconosciuto"),
             data |-> [array |-> <<>>]]

\* The AutocompleteResponse fetchByOracleIds returns for a parsed body.
NormalizeOracle(responseData) ==
  IF /\ SuccessOf(responseData)
     /\ "data" \in DOMAIN responseData
     /\ DataIsArray(responseData.data)
  THEN LET cards == SelectSeq(responseData.data.data.array, ValidCard)
       IN [success |-> TRUE,
           cached |-> CachedOf(responseData),
           data |-> [array |-> [i \in 1..Len(cards) |-> CardToPrinting(cards[i])]]]
  ELSE IF SuccessOf(responseData) /\ DataIsArray(responseData)
       THEN responseData
       ELSE [success |-> FALSE, cached |-> FALSE,
             error |-> "Formato risposta API non riconosciuto",
             data |-> [array |-> <<>>]]

\* ------------------------------------------------ performSearch, the parts
fuseLimit == 10

\* An entry is found under query q.
Found(entry, q) == q \in IndexedUnder(entry.preferred) \cup IndexedUnder(entry.name)

\* fuseDictionary.search(q, { limit: 10 }), best matches first.
FuseSearch(dict, q) ==
  LET hits == SelectSeq(dict.entries, LAMBDA e : Found(e, q))
  IN SubSeq(hits, 1, IF Len(hits) < fuseLimit THEN Len(hits) ELSE fuseLimit)

\* Object.keys(idToPreferredName).length === 0
ContextMapEmpty(dict) == dict.entries = <<>>

\* The dictionary cannot be searched (the condition of the first fallback).
DictionaryNotReady(loadingFlag, dict) ==
  loadingFlag \/ ~dict.built \/ ContextMapEmpty(dict)

\* [...new Set(fuseResults.map(r => r.item.id))]: first occurrences, in order
RECURSIVE Distinct(_, _)
Distinct(ids, seen) ==
  IF ids = <<>> THEN <<>>
  ELSE IF Head(ids) \in seen THEN Distinct(Tail(ids), seen)
       ELSE <<Head(ids)>> \o Distinct(Tail(ids), seen \cup {Head(ids)})

OracleIds(fuseResults) ==
  Distinct([i \in 1..Len(fuseResults) |-> fuseResults[i].id], {})

\* Mutant of AssignAll: an id keeps the name of its first candidate.
AssignAllKeepsFirst(fuseResults, map) ==
  [k \in DOMAIN map \cup {fuseResults[i].id : i \in 1..Len(fuseResults)} |->
     IF k \in DOMAIN map THEN map[k]
     ELSE fuseResults[CHOOSE i \in 1..Len(fuseResults) :
                        /\ fuseResults[i].id = k
                        /\ \A j \in 1..(i - 1) : fuseResults[j].id # k].preferred]

\* fuseResults.forEach(r => { idToPreferredMap[r.item.id] = r.item.preferred })
RECURSIVE AssignAll(_, _)
AssignAll(fuseResults, map) ==
  IF fuseResults = <<>> THEN map
  ELSE AssignAll(Tail(fuseResults),
         Spread(map, [k \in {Head(fuseResults).id} |-> Head(fuseResults).preferred]))

IdToPreferredMap(fuseResults) == AssignAll(fuseResults, [k \in {} |-> ""])

\* Mutant of IsSet: no item is taken for a set.
IsSetNever(result) == FALSE

IsSet(result) == Get(result, "type") = "set"

\* Mutant of ProcessEnglish: cards are tagged as in the fallback cases.
ProcessEnglishTagged(result) ==
  IF IsSet(result) THEN Spread(result, [type |-> "set"])
  ELSE Spread(result, [originalName |-> result.name, type |-> "card"])

\* The map callback of the English case.
ProcessEnglish(result) ==
  IF IsSet(result) THEN Spread(result, [type |-> "set"])
  ELSE Spread(result, [type |-> "card"])

\* Mutant of ProcessFallback: cards are left as in the English case.
ProcessFallbackUntagged(result) ==
  IF IsSet(result) THEN Spread(result, [type |-> "set"])
  ELSE Spread(result, [type |-> "card"])

\* The map callback of the two fallbacks to the English search.
ProcessFallback(result) ==
  IF IsSet(result) THEN Spread(result, [type |-> "set"])
  ELSE Spread(result, [originalName |-> result.name, type |-> "card"])

\* Mutant of ProcessTranslated: the card keeps its English name for display.
ProcessTranslatedKeepsName(printing, map) ==
  LET preferredName == Get(map, printing.oracle_id)
  IN Spread(printing,
       [preferredName |-> OrElse(preferredName, Undefined),
        originalName |-> printing.name,
        type |-> "card"])

\* Mutant of ProcessTranslated: originalName is read after the name was
\* replaced.
ProcessTranslatedLosesOriginal(printing, map) ==
  LET preferredName == Get(map, printing.oracle_id)
  IN Spread(printing,
       [name |-> OrElse(preferredName, printing.name),
        preferredName |-> OrElse(preferredName, Undefined),
        originalName |-> OrElse(preferredName, printing.name),
        type |-> "card"])

\* The map callback of the translated case.
ProcessTranslated(printing, map) ==
  LET preferredName == Get(map, printing.oracle_id)
  IN Spread(printing,
       [name |-> OrElse(preferredName, printing.name),
        preferredName |-> OrElse(preferredName, Undefined),
        originalName |-> printing.name,
        type |-> "card"])

\* Mutant of CommitFailure: cached keeps the value of the last success.
CommitFailureKeepsCached(data, S) ==
  [S EXCEPT !.results = <<>>,
            !.error = OrElse(Get(data, "error"), "Errore durante la ricerca")]

\* Mutant of CommitFailure: the results of before stay under the error.
CommitFailureKeepsResults(data, S) ==
  [S EXCEPT !.cached = FALSE,
            !.error = OrElse(Get(data, "error"), "Errore durante la ricerca")]

\* The branch shared by every case when the response is not a success.
CommitFailure(data, S) ==
  [S EXCEPT !.results = <<>>, !.cached = FALSE,
            !.error = OrElse(Get(data, "error"), "Errore durante la ricerca")]

\* What the English case writes once its data is there.
CommitEnglish(data, S) ==
  IF SuccessOf(data) /\ DataIsArray(data)
  THEN [S EXCEPT !.results = [i \in 1..Len(data.data.array) |->
                                ProcessEnglish(data.data.array[i])],
                 !.cached = CachedOf(data), !.error = Null,
                 !.translatedName = Null]
  ELSE CommitFailure(data, S)

\* What a fallback to the English search writes once its data is there.
CommitFallback(data, S) ==
  IF SuccessOf(data) /\ DataIsArray(data)
  THEN [S EXCEPT !.results = [i \in 1..Len(data.data.array) |->
                                ProcessFallback(data.data.array[i])],
                 !.cached = CachedOf(data), !.error = Null,
                 !.translatedName = Null]
  ELSE CommitFailure(data, S)

\* What the translated case writes once its data is there.
CommitTranslated(data, fuseResults, S) ==
  IF SuccessOf(data) /\ DataIsArray(data)
  THEN LET printings == SelectSeq(data.data.array, LAMBDA r : ~IsSet(r))
           idToPreferredMap == IdToPreferredMap(fuseResults)
       IN [S EXCEPT
         !.results = [i \in 1..Len(printings) |->
                        ProcessTranslated(printings[i], idToPreferredMap)],
         !.cached = CachedOf(data), !.error = Null,
         !.translatedName = OrElse(fuseResults[1].preferred, Null)]
  ELSE CommitFailure(data, S)

\* The write after an await, made only if the call's own controller is not
\* aborted (gone: the controllers aborted by then).
Commit(call, data, gone, S) ==
  IF call.ctl \in gone THEN S
  ELSE CASE call.case = "english" -> CommitEnglish(data, S)
         [] call.case = "translated" -> CommitTranslated(data, call.fuseResults, S)
         [] OTHER -> CommitFallback(data, S)

\* The message the catch block shows for an error.
ErrorMessage(err) ==
  IF Includes(err, "Troppe richieste") THEN Message(err.parts)
  ELSE IF Includes(err, "Failed to fetch") \/ Includes(err, "NetworkError")
       THEN "Errore di connessione"
       ELSE IF Includes(err, "HTTP error")
            THEN IF Includes(err, "429")
                 THEN "Troppe richieste. Attendi qualche secondo prima di riprovare."
                 ELSE "Errore del server: " \o Message(err.parts)
            ELSE "Errore durante la ricerca"

\* Mutant of Catch: cached keeps the value of the last success.
CatchKeepsCached(err, S) ==
  IF err.name # "AbortError"
  THEN [S EXCEPT !.error = ErrorMessage(err), !.results = <<>>]
  ELSE S

\* Mutant of Catch: the error is shown over the results of before.
CatchKeepsResults(err, S) ==
  IF err.name # "AbortError"
  THEN [S EXCEPT !.error = ErrorMessage(err), !.cached = FALSE]
  ELSE S

\* The catch block.
Catch(err, S) ==
  IF err.name # "AbortError"
  THEN [S EXCEPT !.error = ErrorMessage(err), !.results = <<>>, !.cached = FALSE]
  ELSE S

\* Mutant of Finally: loading is never cleared.
FinallyNever(ref, gone, S) == S

\* Mutant of Finally: loading is cleared whatever the controller's state.
FinallyAlways(ref, gone, S) == [S EXCEPT !.loading = FALSE]

\* The finally block: ref is abortControllerRef.current when it runs, gone
\* the controllers aborted by then.
Finally(ref, gone, S) ==
  IF ref = 0 \/ ref \notin gone THEN [S EXCEPT !.loading = FALSE] ELSE S

\* Mutant of TooShort: the length is taken before trimming.
TooShortUntrimmed(searchTerm) == Len(searchTerm) < minLength

\* Mutant of SearchPlan: a loading dictionary is treated as a missing one.
SearchPlanFallsBackEarly(lang, loadingFlag, dict, searchTerm) ==
  IF lang = "en"
  THEN [case |-> "english", lookup |-> FALSE, fuseResults |-> <<>>]
  ELSE IF DictionaryNotReady(loadingFlag, dict)
       THEN [case |-> "nodictionary", lookup |-> FALSE, fuseResults |-> <<>>]
       ELSE LET fuseResults == FuseSearch(dict, Str(Trim(searchTerm)))
            IN IF Len(fuseResults) = 0
               THEN [case |-> "nomatch", lookup |-> TRUE, fuseResults |-> <<>>]
               ELSE [case |-> "translated", lookup |-> TRUE,
                     fuseResults |-> fuseResults]

\* searchTerm.trim().length < minLength
TooShort(searchTerm) == Len(Trim(searchTerm)) < minLength

\* The case performSearch takes for a term that is long enough, with whether
\* it searches the dictionary and what the search finds.
SearchPlan(lang, loadingFlag, dict, searchTerm) ==
  IF lang = "en"
  THEN [case |-> "english", lookup |-> FALSE, fuseResults |-> <<>>]
  ELSE IF DictionaryNotReady(loadingFlag, dict)
       THEN IF loadingFlag
            THEN [case |-> "waiting", lookup |-> FALSE, fuseResults |-> <<>>]
            ELSE [case |-> "nodictionary", lookup |-> FALSE, fuseResults |-> <<>>]
       ELSE LET fuseResults == FuseSearch(dict, Str(Trim(searchTerm)))
            IN IF Len(fuseResults) = 0
               THEN [case |-> "nomatch", lookup |-> TRUE, fuseResults |-> <<>>]
               ELSE [case |-> "translated", lookup |-> TRUE,
                     fuseResults |-> fuseResults]

\* The client operation a case calls.
Operation(case) ==
  CASE case = "waiting" -> "none"
    [] case = "translated" -> "searchByIds"
    [] OTHER -> "searchByTerm"

\* ------------------------------------------------------------ the network
\* A fetch call the network has not answered: the controller whose signal it
\* was given, the operation and its argument, the case of performSearch that
\* awaits it (with the dictionary hits it holds), the await it is at
\* ("fetch", then "json"), and whether the effect re-ran since it was issued.
\* fetch and response.json() reject with an AbortError as soon as the signal
\* is aborted, and the continuation of performSearch runs before any other
\* task: an aborted call leaves the wire in the step that aborts it, and
\* whatever the network answers to it later is discarded by fetch.
NewCall(controller, plan, searchTerm) ==
  [ctl |-> controller, op |-> Operation(plan.case), case |-> plan.case,
   term |-> Str(Trim(searchTerm)), ids |-> OracleIds(plan.fuseResults),
   fuseResults |-> plan.fuseResults, phase |-> "fetch", superseded |-> FALSE]

\* The calls an abort of the controllers in gone rejects with AbortError.
Rejected(w, gone) == {c \in w : c.ctl \in gone}

\* performSearch resumed with the AbortError of its rejected call.
Resume(rejected, ref, gone, S) ==
  IF rejected = {} THEN S ELSE Finally(ref, gone, Catch(AbortError, S))

\* Mutant of AbortCurrent: abort() has no effect.
AbortNothing(ref) == {}

\* signal of abortControllerRef.current, aborted by a cleanup or by
\* performSearch itself.
AbortCurrent(ref) == IF ref # 0 THEN {ref} ELSE {}

\* new AbortController(): an id no pending call holds.  (Ids are reused once
\* nothing refers to them.)
NewController(w) ==
  CHOOSE n \in 1..(Cardinality(w) + 1) :
    /\ \A c \in w : c.ctl # n
    /\ \A m \in 1..(n - 1) : \E c \in w : c.ctl = m

\* The aborted controllers something still refers to.
Referred(gone, ref, w) == {n \in gone : n = ref \/ \E c \in w : c.ctl = n}

\* Mutant of Scheduled: the callback calls the performSearch of the render
\* before, which closes over the language context of before.
ScheduledStale(id, searchTerm, lang, loadingFlag, dict) ==
  [id |-> id, term |-> searchTerm, lang |-> selectedLang,
   loading |-> isLangLoading, dict |-> dictionary]

\* setTimeout(() => { performSearch(term) }, debounceMs): the pending timer,
\* with the term its callback closes over and the language context the
\* performSearch of the same render closes over.
Scheduled(id, searchTerm, lang, loadingFlag, dict) ==
  [id |-> id, term |-> searchTerm, lang |-> lang, loading |-> loadingFlag,
   dict |-> dict]

\* Mutant of ClearTimeout: the timer stays pending.
ClearsNothing(ref, ts) == ts

\* if (timeoutRef.current) clearTimeout(timeoutRef.current)
ClearTimeout(ref, ts) == {tm \in ts : tm.id # ref}

\* The id setTimeout returns: one no pending timer has.
NewTimer(ts) ==
  CHOOSE n \in 1..(Cardinality(ts) + 1) :
    /\ \A tm \in ts : tm.id # n
    /\ \A m \in 1..(n - 1) : \E tm \in ts : tm.id = m

Write(S) ==
  /\ results' = S.results
  /\ loading' = S.loading
  /\ error' = S.error
  /\ cached' = S.cached
  /\ translatedName' = S.translatedName

\* -------------------------------------------------------------- the hook
Init ==
  /\ mounted = TRUE
  /\ term = <<>>
  /\ selectedLang = "en"
  /\ isLangLoading = FALSE
  /\ dictionary = NoDictionary
  /\ results = <<>>
  /\ loading = FALSE
  /\ error = Null
  /\ cached = FALSE
  /\ translatedName = Null
  /\ abortControllerRef = 0
  /\ aborted = {}
  /\ timeoutRef = 1
  /\ timers = {Scheduled(1, <<>>, "en", FALSE, NoDictionary)}
  /\ rateLimitRef = RateLimitReset
  /\ now = 0
  /\ wire = {}
  /\ throttledAt = -1
  /\ event = [kind |-> "mount"]

\* Mutant of CleanupAborts: the cleanup clears the timer and aborts nothing.
CleanupAbortsNothing(ref) == {}

\* The controllers the cleanup of the debounce effect aborts.
CleanupAborts(ref) == AbortCurrent(ref)

\* The controllers performSearch aborts before it creates its own.
SearchAborts(ref) == AbortCurrent(ref)

\* The debounce effect re-run because one of its dependencies changed: the
\* cleanup of the previous run, the new timer, then the continuations of the
\* calls the cleanup rejected.
Rerun(kind) ==
  LET gone == aborted \cup CleanupAborts(abortControllerRef)
      left == wire \ Rejected(wire, gone)
      cleared == ClearTimeout(timeoutRef, timers)
      id == NewTimer(cleared)
  IN /\ timeoutRef' = id
     /\ timers' = cleared \cup {Scheduled(id, term', selectedLang',
                                          isLangLoading', dictionary')}
     /\ aborted' = Referred(gone, abortControllerRef, left)
     /\ wire' = {[c EXCEPT !.superseded = TRUE] : c \in left}
     /\ Write(Resume(Rejected(wire, gone), abortControllerRef, gone, Observable))
     /\ event' = [kind |-> kind, rejected |-> Rejected(wire, gone),
                  cancelled |-> timers \ cleared,
                  loaded |-> isLangLoading /\ ~isLangLoading']
     /\ UNCHANGED <<mounted, abortControllerRef, rateLimitRef, now, throttledAt>>

\* The component passes another term.
ChangeTerm(t) ==
  /\ mounted
  /\ t # term
  /\ term' = t
  /\ UNCHANGED <<selectedLang, isLangLoading, dictionary>>
  /\ Rerun("term")

\* Mutant of ChangeContext: the effect does not depend on performSearch, so
\* that a change of the context leaves the timer and the call as they are.
ChangeContextKeepsTimer(ctx) ==
  /\ mounted
  /\ <<ctx.lang, ctx.loading, ctx.dict>> # <<selectedLang, isLangLoading, dictionary>>
  /\ selectedLang' = ctx.lang
  /\ isLangLoading' = ctx.loading
  /\ dictionary' = ctx.dict
  /\ event' = [kind |-> "context", rejected |-> {}, cancelled |-> {},
               loaded |-> isLangLoading /\ ~ctx.loading]
  /\ UNCHANGED <<mounted, term, results, loading, error, cached, translatedName,
                 abortControllerRef, aborted, timeoutRef, timers, rateLimitRef,
                 now, wire, throttledAt>>

\* The language context changes (language, loading flag or dictionary), which
\* makes a new performSearch.
ChangeContext(ctx) ==
  /\ mounted
  /\ <<ctx.lang, ctx.loading, ctx.dict>> # <<selectedLang, isLangLoading, dictionary>>
  /\ selectedLang' = ctx.lang
  /\ isLangLoading' = ctx.loading
  /\ dictionary' = ctx.dict
  /\ UNCHANGED term
  /\ Rerun("context")

\* A debounce timer fires: performSearch(term), with the term and the context
\* of the render that set the timer, up to its first await that waits for the
\* network, or to its end.
FireTimer(tm) ==
  /\ tm \in timers
  /\ timers' = timers \ {tm}
  /\ UNCHANGED <<mounted, term, selectedLang, isLangLoading, dictionary, now,
                 timeoutRef, throttledAt>>
  /\ LET S0 == [Observable EXCEPT !.error = Null, !.translatedName = Null]
     IN IF TooShort(tm.term)
        THEN /\ Write([S0 EXCEPT !.results = <<>>, !.loading = FALSE,
                                 !.cached = FALSE])
             /\ UNCHANGED <<abortControllerRef, aborted, wire, rateLimitRef>>
             /\ event' = [kind |-> "search", case |-> "short", called |-> "none",
                          lookup |-> FALSE, blocked |-> FALSE, term |-> tm.term]
        ELSE LET stale == aborted \cup SearchAborts(abortControllerRef)
                 left == wire \ Rejected(wire, stale)
                 controller == NewController(left)
                 gone == Referred(stale, controller, left) \ {controller}
                 S1 == [S0 EXCEPT !.loading = TRUE]
                 plan == SearchPlan(tm.lang, tm.loading, tm.dict, tm.term)
                 check ==
                   CASE Operation(plan.case) = "searchByTerm" ->
                          EnglishCheck(rateLimitRef, now)
                     [] Operation(plan.case) = "searchByIds" ->
                          OracleCheck(rateLimitRef, now)
                     [] OTHER -> [thrown |-> [name |-> Null], rl |-> rateLimitRef]
                 blocked == check.thrown.name # Null
                 issued == Operation(plan.case) # "none" /\ ~blocked
                 S2 == IF issued THEN S1
                       ELSE IF blocked
                            THEN Finally(controller, gone,
                                   Catch(check.thrown, S1))
                            ELSE Finally(controller, gone, S1)
                 sent == IF issued THEN {NewCall(controller, plan, tm.term)} ELSE {}
             IN /\ abortControllerRef' = controller
                /\ rateLimitRef' = check.rl
                /\ aborted' = gone
                /\ wire' = left \cup sent
                /\ Write(Resume(Rejected(wire, stale), controller, gone, S2))
                /\ event' = [kind |-> "search", case |-> plan.case,
                             called |-> Operation(plan.case),
                             lookup |-> plan.lookup, blocked |-> blocked,
                             term |-> tm.term]

\* The response of a pending fetch arrives: the status check of the helper,
\* and, when it throws, the catch and finally blocks of performSearch.
Respond(c, status, hint) ==
  /\ c \in wire /\ c.phase = "fetch"
  /\ LET r == IF c.op = "searchByIds" THEN OracleStatus(status, rateLimitRef, now)
              ELSE EnglishStatus(status, rateLimitRef, now)
     IN /\ rateLimitRef' = r.rl
        /\ IF r.thrown.name # Null
           THEN /\ wire' = wire \ {c}
                /\ Write(Finally(abortControllerRef, aborted,
                           Catch(r.thrown, Observable)))
           ELSE /\ wire' = (wire \ {c}) \cup {[c EXCEPT !.phase = "json"]}
                /\ Write(Observable)
  /\ throttledAt' = IF status = 429 THEN now ELSE throttledAt
  /\ event' = [kind |-> "status", call |-> c, status |-> status, hint |-> hint]
  /\ UNCHANGED <<mounted, term, selectedLang, isLangLoading, dictionary,
                 abortControllerRef, aborted, timeoutRef, timers, now>>

\* Mutant of Fail: a transport failure schedules another attempt.
FailRetries(c, msg) ==
  /\ c \in wire /\ c.phase = "fetch"
  /\ wire' = wire \ {c}
  /\ Write(Finally(abortControllerRef, aborted,
             Catch(TransportError(msg), Observable)))
  /\ event' = [kind |-> "failed", call |-> c, thrown |-> TransportError(msg),
               leftover |-> results # <<>>]
  /\ timeoutRef' = NewTimer(timers)
  /\ timers' = timers \cup {Scheduled(NewTimer(timers), term, selectedLang,
                                      isLangLoading, dictionary)}
  /\ UNCHANGED <<mounted, term, selectedLang, isLangLoading, dictionary,
                 abortControllerRef, aborted, now, rateLimitRef, throttledAt>>

\* A pending fetch fails at the transport: fetch rejects with a TypeError.
Fail(c, msg) ==
  /\ c \in wire /\ c.phase = "fetch"
  /\ wire' = wire \ {c}
  /\ Write(Finally(abortControllerRef, aborted,
             Catch(TransportError(msg), Observable)))
  /\ event' = [kind |-> "failed", call |-> c, thrown |-> TransportError(msg),
               leftover |-> results # <<>>]
  /\ UNCHANGED <<mounted, term, selectedLang, isLangLoading, dictionary,
                 abortControllerRef, aborted, timeoutRef, timers, now,
                 rateLimitRef, throttledAt>>

\* The bodies an operation's endpoint may send.
Bodies(op) == IF op = "searchByIds" THEN IdsBodies ELSE TermBodies

\* Mutant of Receive: a translated resolution that is answered no card goes
\* on with a search by term.
ReceiveFallsBack(c, body) ==
  /\ c \in wire /\ c.phase = "json"
  /\ body \in Bodies(c.op)
  /\ LET data == IF c.op = "searchByIds" THEN NormalizeOracle(body) ELSE body
         again == /\ c.case = "translated" /\ SuccessOf(data) /\ DataIsArray(data)
                  /\ data.data.array = <<>>
     IN /\ wire' = (wire \ {c}) \cup
                     (IF again
                      THEN {[c EXCEPT !.op = "searchByTerm", !.case = "nomatch",
                                      !.phase = "fetch"]}
                      ELSE {})
        /\ Write(IF again THEN Observable
                 ELSE Finally(abortControllerRef, aborted,
                        Commit(c, data, aborted, Observable)))
        /\ event' = [kind |-> "data", call |-> c, body |-> body, data |-> data]
  /\ UNCHANGED <<mounted, term, selectedLang, isLangLoading, dictionary,
                 abortControllerRef, aborted, timeoutRef, timers, now,
                 rateLimitRef, throttledAt>>

\* response.json() resolves: the rest of the helper, then the write of
\* performSearch and its finally block.
Receive(c, body) ==
  /\ c \in wire /\ c.phase = "json"
  /\ body \in Bodies(c.op)
  /\ wire' = wire \ {c}
  /\ LET data == IF c.op = "searchByIds" THEN NormalizeOracle(body) ELSE body
     IN /\ Write(Finally(abortControllerRef, aborted,
                   Commit(c, data, aborted, Observable)))
        /\ event' = [kind |-> "data", call |-> c, body |-> body, data |-> data]
  /\ UNCHANGED <<mounted, term, selectedLang, isLangLoading, dictionary,
                 abortControllerRef, aborted, timeoutRef, timers, now,
                 rateLimitRef, throttledAt>>

\* response.json() rejects: the body is not JSON.
ReceiveGarbage(c) ==
  /\ c \in wire /\ c.phase = "json"
  /\ wire' = wire \ {c}
  /\ Write(Finally(abortControllerRef, aborted, Catch(JsonError, Observable)))
  /\ event' = [kind |-> "failed", call |-> c, thrown |-> JsonError,
               leftover |-> results # <<>>]
  /\ UNCHANGED <<mounted, term, selectedLang, isLangLoading, dictionary,
                 abortControllerRef, aborted, timeoutRef, timers, now,
                 rateLimitRef, throttledAt>>

\* Time passes.
Tick(d) ==
  /\ now + d <= MaxClock
  /\ now' = now + d
  /\ event' = [kind |-> "tick"]
  /\ UNCHANGED <<mounted, term, selectedLang, isLangLoading, dictionary, results,
                 loading, error, cached, translatedName, abortControllerRef,
                 aborted, timeoutRef, timers, rateLimitRef, wire, throttledAt>>

\* The component unmounts: the cleanups of both effects.
Unmount ==
  /\ mounted
  /\ mounted' = FALSE
  /\ timers' = ClearTimeout(timeoutRef, timers)
  /\ LET gone == aborted \cup CleanupAborts(abortControllerRef)
         left == wire \ Rejected(wire, gone)
     IN /\ aborted' = Referred(gone, abortControllerRef, left)
        /\ wire' = {[c EXCEPT !.superseded = TRUE] : c \in left}
        /\ Write(Resume(Rejected(wire, gone), abortControllerRef, gone, Observable))
        /\ event' = [kind |-> "unmount", rejected |-> Rejected(wire, gone)]
  /\ UNCHANGED <<term, selectedLang, isLangLoading, dictionary, abortControllerRef,
                 timeoutRef, rateLimitRef, now, throttledAt>>

Next ==
  \/ \E t \in Terms : ChangeTerm(t)
  \/ \E ctx \in Contexts : ChangeContext(ctx)
  \/ \E tm \in timers : FireTimer(tm)
  \/ \E c \in wire, status \in Statuses, hint \in RetryHints :
       Respond(c, status, hint)
  \/ \E c \in wire, msg \in TransportFailures : Fail(c, msg)
  \/ \E c \in wire, body \in TermBodies \cup IdsBodies : Receive(c, body)
  \/ \E c \in wire : ReceiveGarbage(c)
  \/ \E d \in ClockSteps : Tick(d)
  \/ Unmount

Spec == Init /\ [][Next]_vars

\* A pending timer fires (setTimeout runs its callback after debounceMs).
TimerFires == \E tm \in timers : FireTimer(tm)

\* The network answers a call in flight, or fails it.
NetworkAnswers ==
  \E c \in wire :
    \/ \E status \in Statuses, hint \in RetryHints : Respond(c, status, hint)
    \/ \E msg \in TransportFailures : Fail(c, msg)
    \/ \E body \in TermBodies \cup IdsBodies : Receive(c, body)
    \/ ReceiveGarbage(c)

\* The hook with its scheduling: a pending timer fires, and every call in
\* flight is answered or fails.
LiveSpec == Spec /\ WF_vars(TimerFires) /\ WF_vars(NetworkAnswers)

\* ===================================================================
\* Properties
\* ===================================================================

\* What a resolution emits besides the loading flag.
Outcome == <<results, error, cached, translatedName>>

\* The term is long enough for a search.
LongEnough == Len(Trim(term)) >= minLength

\* The response given to performSearch is a success with a data list.
Succeeded(data) == SuccessOf(data) /\ DataIsArray(data)

\* The items of results that are cards.
CardIndexes == {i \in 1..Len(results) : results[i].type = "card"}

\* An item carries a property (it is there and is not undefined).
Carries(item, k) == k \in DOMAIN item /\ item[k] # Undefined

\* C1. Supersession: a term change made while a query's network call is
\* unresolved never lets that query write results, error, cached or
\* translatedName afterwards: neither the step that supersedes it (the
\* cleanup and the AbortError it raises in performSearch) nor any later
\* answer to a superseded call changes them.
Supersession ==
  [][(\/ event'.kind = "term"
      \/ (event'.kind \in {"status", "failed", "data"} /\ event'.call.superseded))
     => Outcome' = Outcome]_vars

\* C1 witness: a term change that found a call in flight and rejected it.
SupersessionWitness == event.kind = "term" /\ event.rejected # {}

\* C2. A term whose trimmed length is below minLength resolves without a
\* network request and leaves results empty, error and translatedName null,
\* cached and loading false.
ShortTermResolvesEmpty ==
  [][(event'.kind = "search" /\ ~LongEnough)
     => /\ wire' \subseteq wire
        /\ results' = <<>> /\ error' = Null /\ translatedName' = Null
        /\ cached' = FALSE /\ loading' = FALSE]_vars

\* C2 witness: the resolution of a term that is long enough before trimming
\* only.
ShortTermWitness ==
  event.kind = "search" /\ ~LongEnough /\ Len(term) >= minLength

\* C3. After a 429 response, a call of either operation made less than 30
\* seconds later fails with the rate-limit message and sends nothing; a call
\* made 30 seconds later or more is sent.
CooldownGatesCalls ==
  [][(event'.kind = "search" /\ event'.called # "none" /\ throttledAt >= 0)
     => IF now < throttledAt + 30 * 1000
        THEN /\ wire' \subseteq wire
             /\ error' = Message(RateLimitError(
                           CeilSeconds(throttledAt + 30 * 1000 - now)).parts)
        ELSE \E c \in wire' \ wire : c.op = event'.called]_vars

\* C3 witness: a call made exactly 30 seconds after the 429 response, sent.
CooldownWitness ==
  /\ event.kind = "search" /\ event.called # "none"
  /\ throttledAt >= 0 /\ now = throttledAt + 30 * 1000
  /\ wire # {}

\* C4 as stated: after any response that is not a 429, a 500 included, the
\* rate-limit reference is {blocked: false, until: 0}.
AnyResponseResetsRateLimit ==
  (event.kind = "status" /\ event.status # 429) => rateLimitRef = RateLimitReset

\* C4 amended: a 2xx response resets the rate-limit reference; a response
\* with another status that is not 429 leaves it as it was.
OkResponseResetsRateLimit ==
  [][event'.kind = "status"
     => /\ Ok(event'.status) => rateLimitRef' = RateLimitReset
        /\ (~Ok(event'.status) /\ event'.status # 429) => rateLimitRef' = rateLimitRef]_vars

\* C4 witness: a 500 response to a call sent after the cooldown expired,
\* the reference still blocked.
ErrorResponseWitness ==
  event.kind = "status" /\ event.status = 500 /\ rateLimitRef.blocked

\* A resolution that was not superseded has just completed (a suspension for
\* a loading dictionary aside).
Completed ==
  \/ event.kind = "search" /\ (event.case = "short" \/ event.blocked)
  \/ event.kind = "status" /\ ~Ok(event.status) /\ ~event.call.superseded
  \/ event.kind \in {"failed", "data"} /\ ~event.call.superseded

\* C5 as stated: after every completed resolution either results is
\* non-empty and error null, or results is empty and error non-null.
ExactlyOneOfResultsOrError ==
  Completed => \/ results # <<>> /\ error = Null
               \/ results = <<>> /\ error # Null

\* C5 amended: after every completed resolution results is non-empty and
\* error null, or results is empty and error non-null, or, for a term that
\* is too short and for a remote call that succeeded, results is empty and
\* error null.
ResultsOrErrorOrNothing ==
  Completed => \/ results # <<>> /\ error = Null
               \/ results = <<>> /\ error # Null
               \/ /\ results = <<>> /\ error = Null
                  /\ \/ event.kind = "search" /\ event.case = "short"
                     \/ event.kind = "data" /\ Succeeded(event.data)

\* C5 witness: a remote call that succeeded with an empty list.
EmptySuccessWitness ==
  /\ event.kind = "data" /\ Succeeded(event.data)
  /\ event.data.data.array = <<>>
  /\ results = <<>> /\ error = Null

\* The preferred name the candidates give an id: that of the last candidate
\* with the id, Undefined when no candidate has it.
PreferredOf(candidates, id) ==
  LET at == {i \in 1..Len(candidates) : candidates[i].id = id}
  IN IF at = {} THEN Undefined
     ELSE candidates[CHOOSE i \in at : \A j \in at : j <= i].preferred

\* C6. In the translated case, on a successful searchByIds response, the
\* results are the cards of the response, in order, each with originalName
\* its canonical name and with name and preferredName the preferred name of
\* its id when the candidates give one, its canonical name and no
\* preferredName otherwise; translatedName is the preferred name of the
\* first candidate.
TranslatedCardsCarryPreferredNames ==
  (event.kind = "data" /\ event.call.case = "translated" /\ Succeeded(event.data))
  => LET cards == SelectSeq(event.data.data.array, LAMBDA r : ~IsSet(r))
         candidates == event.call.fuseResults
     IN /\ Len(results) = Len(cards)
        /\ \A i \in 1..Len(cards) :
             LET preferred == PreferredOf(candidates, cards[i].oracle_id)
             IN /\ results[i].originalName = cards[i].name
                /\ results[i].oracle_id = cards[i].oracle_id
                /\ IF preferred # Undefined
                   THEN /\ results[i].name = preferred
                        /\ results[i].preferredName = preferred
                   ELSE /\ results[i].name = cards[i].name
                        /\ ~Carries(results[i], "preferredName")
        /\ translatedName = candidates[1].preferred

\* C6 witness: a translated response with a card the candidates name (and
\* whose preferred name is not the first candidate's) and one they do not.
TranslatedWitness ==
  /\ event.kind = "data" /\ event.call.case = "translated"
  /\ \E i, j \in 1..Len(results) :
       /\ Carries(results[i], "preferredName")
       /\ results[i].name # translatedName
       /\ ~Carries(results[j], "preferredName")

\* A language other than English whose dictionary is loaded and has nothing
\* for the term: it is missing, empty, or finds no candidate.
NothingToTranslate ==
  /\ selectedLang # "en" /\ ~isLangLoading /\ LongEnough
  /\ \/ ~dictionary.built
     \/ dictionary.entries = <<>>
     \/ FuseSearch(dictionary, Str(Trim(term))) = <<>>

\* C7. When the language is not English and the dictionary is empty or has
\* no candidate for the term, the resolution calls searchByTerm, never
\* searchByIds, and on success every card has originalName equal to its
\* name and no preferredName, and translatedName is null.
FallbackTagsOriginalName ==
  NothingToTranslate
  => /\ event.kind = "search" => event.called = "searchByTerm"
     /\ \A c \in wire : c.op = "searchByTerm"
     /\ (event.kind = "data" /\ Succeeded(event.data))
        => /\ Len(results) = Len(event.data.data.array)
           /\ \A i \in CardIndexes :
                /\ Carries(results[i], "originalName")
                /\ results[i].originalName = results[i].name
                /\ results[i].name = event.data.data.array[i].name
                /\ ~Carries(results[i], "preferredName")
           /\ translatedName = Null

\* C7 witness: a fallback that showed a card, the dictionary having entries
\* but none for the term.
FallbackWitness ==
  /\ NothingToTranslate /\ dictionary.entries # <<>>
  /\ event.kind = "data" /\ CardIndexes # {}

\* C8. An English query calls searchByTerm only and never searches the
\* dictionary; no result it emits carries preferredName or originalName,
\* and translatedName is null.
EnglishResultsUntranslated ==
  (selectedLang = "en" /\ LongEnough)
  => /\ event.kind = "search" => (event.called = "searchByTerm" /\ ~event.lookup)
     /\ \A c \in wire : c.op = "searchByTerm"
     /\ (event.kind = "data" /\ Succeeded(event.data))
        => /\ Len(results) = Len(event.data.data.array)
           /\ \A i \in 1..Len(results) :
                /\ ~Carries(results[i], "preferredName")
                /\ ~Carries(results[i], "originalName")
     /\ event.kind \in {"search", "status", "failed", "data"}
        => translatedName = Null

\* C8 witness: English results for a term the loaded dictionary has
\* candidates for.
EnglishWitness ==
  /\ selectedLang = "en" /\ event.kind = "data" /\ CardIndexes # {}
  /\ FuseSearch(dictionary, Str(Trim(term))) # <<>>

\* The language is not English and its dictionary is loading.
DictionaryLoading == selectedLang # "en" /\ isLangLoading /\ LongEnough

\* C9 as stated: a resolution made while the dictionary loads sends no
\* request and leaves results, error, cached and translatedName as they were.
LoadingResolutionWritesNothing ==
  [][(event'.kind = "search" /\ DictionaryLoading)
     => /\ wire' \subseteq wire
        /\ Outcome' = Outcome]_vars

\* C9 amended: such a resolution sends no request and leaves results and
\* cached as they were; it resets error and translatedName to null and
\* leaves loading false.
LoadingResolutionKeepsResults ==
  [][(event'.kind = "search" /\ DictionaryLoading)
     => /\ wire' \subseteq wire
        /\ results' = results /\ cached' = cached
        /\ error' = Null /\ translatedName' = Null /\ loading' = FALSE]_vars

\* C9 witness: a resolution made while the dictionary loads, the results of
\* an earlier one still there.
LoadingWitness ==
  event.kind = "search" /\ DictionaryLoading /\ results # <<>> /\ cached

\* A resolution has just failed: rejected by the cooldown, a non-2xx status,
\* a transport failure, or a response that is not a success with a list.
Failed ==
  \/ event.kind = "search" /\ event.blocked
  \/ event.kind = "status" /\ ~Ok(event.status)
  \/ event.kind = "failed"
  \/ event.kind = "data" /\ ~Succeeded(event.data)

\* C10. Every failure of a resolution that was not superseded leaves results
\* empty, cached false, error a message and loading false.
FailureSettlesWithError ==
  Failed => /\ results = <<>> /\ cached = FALSE
            /\ error \notin {Null, Undefined, ""}
            /\ loading = FALSE

\* C10 witness: an unrecognized body of the by-oracle-ids endpoint.
FailureWitness ==
  /\ event.kind = "data" /\ event.call.op = "searchByIds"
  /\ error = "Formato risposta API non riconosciuto"

\* C11. After the unmount no debounce timer is pending and every call still
\* in flight has an aborted signal, whatever the hook was doing; from the
\* unmount on, performSearch is never invoked and none of the five returned
\* values is written (the AbortError raised by the unmount included).
TeardownLeavesNothing ==
  [][~mounted'
     => /\ timers' = {}
        /\ \A c \in wire' : c.ctl \in aborted'
        /\ event'.kind # "search"
        /\ Observable' = Observable]_vars

\* C11 witness: an unmount that found a call in flight, loading still shown.
TeardownWitness ==
  ~mounted /\ event.kind = "unmount" /\ event.rejected # {} /\ loading

\* C12. In every state at most one debounce timer is pending and at most
\* one call in flight has a signal that is not aborted.
OneTimerOneCall ==
  /\ Cardinality(timers) <= 1
  /\ Cardinality({c \in wire : c.ctl \notin aborted}) <= 1

\* C12 witness: a re-run of the effect that found a call in flight: one
\* timer pending, the call gone.
OneTimerWitness ==
  /\ event.kind \in {"term", "context"} /\ event.rejected # {}
  /\ Cardinality(timers) = 1 /\ abortControllerRef \in aborted

\* The requests a step sends.
Sent == {c \in wire' : c.phase = "fetch"} \ wire

\* C13. A term change leaves exactly one pending timer, the one it starts
\* for the new term, and no call in flight with a signal that is not aborted;
\* performSearch runs only as a timer fires and only for the current term,
\* and a request is sent only by such a run, for that term: a term replaced
\* before its timer fired is never searched.
DebounceSupersedes ==
  [][/\ event'.kind = "term"
        => /\ timers' = {Scheduled(timeoutRef', term', selectedLang',
                                   isLangLoading', dictionary')}
           /\ \A c \in wire' : c.ctl \in aborted'
     /\ event'.kind = "search"
        => /\ \E tm \in timers : timers' = timers \ {tm}
           /\ event'.term = term
     /\ Sent # {}
        => /\ event'.kind = "search"
           /\ \A c \in Sent : c.term = Str(Trim(term))]_vars

\* C13 witness: a term replaced by another before its timer fired.
DebounceWitness ==
  /\ event.kind = "term"
  /\ \E tm \in event.cancelled : tm.term # term /\ Len(Trim(tm.term)) >= minLength

\* C14. No retry: a timer is started only by a change of the term or of the
\* language context, and once a resolution has settled with an error (a
\* rate-limit one included) no step but such a change sends a request or
\* starts a timer, the end of the cooldown included.
NoAutomaticRetry ==
  [][/\ timers' \ timers # {} => event'.kind \in {"term", "context"}
     /\ (/\ error # Null /\ wire = {} /\ timers = {}
         /\ event'.kind \notin {"term", "context"})
        => Sent = {} /\ timers' = {}]_vars

\* C14 witness: the cooldown of a rate-limited resolution has expired, the
\* error still shown and nothing scheduled.
NoRetryWitness ==
  /\ mounted /\ event.kind = "tick"
  /\ error = Message(RateLimitError(retryAfter).parts)
  /\ rateLimitRef.blocked /\ now >= rateLimitRef.until
  /\ wire = {} /\ timers = {}

\* The body has the paginated shape: success, with a list under data.data.
WrappedShape(body) ==
  /\ SuccessOf(body) /\ "data" \in DOMAIN body
  /\ "data" \in DOMAIN body.data /\ "array" \in DOMAIN body.data.data

\* The k-th smallest element of a set of indexes.
Nth(indexes, k) ==
  CHOOSE i \in indexes : Cardinality({j \in indexes : j < i}) = k - 1

\* out holds, in order, the cards at the indexes kept, each converted.
ConvertedInOrder(cards, kept, out) ==
  /\ Len(out) = Cardinality(kept)
  /\ \A k \in 1..Len(out) :
       /\ out[k].printing_id = Get(cards[Nth(kept, k)], "printing_id")
       /\ out[k].oracle_id = Get(cards[Nth(kept, k)], "oracle_id")
       /\ out[k].name = Get(cards[Nth(kept, k)], "name")

\* C15 as stated: of a paginated body, searchByIds returns, in order, every
\* card but those that lack both oracle_id and printing_id.
DropsCardsLackingBothIds ==
  (event.kind = "data" /\ event.call.op = "searchByIds" /\ WrappedShape(event.body))
  => LET cards == event.body.data.data.array
     IN ConvertedInOrder(cards,
          {i \in 1..Len(cards) : \/ Truthy(Get(cards[i], "oracle_id"))
                                 \/ Truthy(Get(cards[i], "printing_id"))},
          event.data.data.array)

\* C15 amended: of a paginated body, searchByIds returns, in order, every
\* card that has both oracle_id and printing_id; a card that lacks either
\* is dropped.
DropsCardsLackingAnId ==
  (event.kind = "data" /\ event.call.op = "searchByIds" /\ WrappedShape(event.body))
  => LET cards == event.body.data.data.array
     IN ConvertedInOrder(cards,
          {i \in 1..Len(cards) : /\ Truthy(Get(cards[i], "oracle_id"))
                                 /\ Truthy(Get(cards[i], "printing_id"))},
          event.data.data.array)

\* C15 witness: a paginated body of four cards, one without printing_id and
\* one without oracle_id, of which two are kept.
DroppedCardWitness ==
  /\ event.kind = "data" /\ event.call.op = "searchByIds"
  /\ WrappedShape(event.body)
  /\ Len(event.body.data.data.array) = 4 /\ Len(event.data.data.array) = 2
  /\ Len(results) = 2

\* The body has the flat shape: success, with a list under data.
FlatShape(body) ==
  SuccessOf(body) /\ "data" \in DOMAIN body /\ "array" \in DOMAIN body.data

\* C16. Of a 2xx body of the by-oracle-ids endpoint that has neither the
\* paginated nor the flat shape, searchByIds returns success false, the
\* error 'Formato risposta API non riconosciuto' and an empty list, and the
\* resolution ends with results empty and that error; a body of the flat
\* shape is returned as it is.
UnrecognizedFormatFails ==
  (event.kind = "data" /\ event.call.op = "searchByIds" /\ ~WrappedShape(event.body))
  => IF FlatShape(event.body)
     THEN event.data = event.body
     ELSE /\ ~SuccessOf(event.data)
          /\ event.data.error = "Formato risposta API non riconosciuto"
          /\ event.data.data.array = <<>>
          /\ results = <<>>
          /\ error = "Formato risposta API non riconosciuto"

\* C16 witness: a body that reports a failure of its own, answered with the
\* format error.
UnrecognizedFormatWitness ==
  /\ event.kind = "data" /\ event.call.op = "searchByIds"
  /\ ~SuccessOf(event.body) /\ "error" \in DOMAIN event.body
  /\ error = "Formato risposta API non riconosciuto"

\* C17. In every state, every result that carries preferredName has name
\* equal to it and carries originalName; and as results are written from a
\* response, originalName is the name the response gave the card.
PreferredNameIsDisplayName ==
  /\ \A i \in 1..Len(results) :
       Carries(results[i], "preferredName")
       => /\ results[i].name = results[i].preferredName
          /\ Carries(results[i], "originalName")
  /\ (event.kind = "data" /\ Succeeded(event.data))
     => LET cards == SelectSeq(event.data.data.array, LAMBDA r : ~IsSet(r))
        IN \A i \in 1..Len(results) :
             Carries(results[i], "preferredName")
             => results[i].originalName = cards[i].name

\* C17 witness: a card shown under its preferred name, some time after the
\* response that brought it.
PreferredNameWitness ==
  /\ event.kind = "tick"
  /\ \E i \in 1..Len(results) :
       /\ Carries(results[i], "preferredName")
       /\ results[i].originalName # results[i].name

\* The state of a hook that has resolved nothing yet.
Blank ==
  [results |-> <<>>, loading |-> FALSE, error |-> Null, cached |-> FALSE,
   translatedName |-> Null]

OutcomeOf(S) == <<S.results, S.error, S.cached, S.translatedName>>

\* The step ends a resolution: it returned early, was rejected by the
\* cooldown, or its call failed or was answered.
Completes ==
  \/ event'.kind = "search" /\ (event'.called = "none" \/ event'.blocked)
  \/ event'.kind = "status" /\ ~Ok(event'.status)
  \/ event'.kind \in {"failed", "data"}

\* The resolution is suspended because the dictionary is loading.
Suspends == event'.kind = "search" /\ event'.case = "waiting"

\* What the resolution the step ends leaves when it is run from Blank with
\* the same term, language context, rate-limit reference, clock and answer
\* of the network.
ReferenceOutcome ==
  CASE event'.kind = "search" /\ event'.blocked ->
         OutcomeOf(Catch(WaitError(rateLimitRef, now), Blank))
    [] event'.kind = "search" /\ ~event'.blocked -> OutcomeOf(Blank)
    [] event'.kind = "status" ->
         OutcomeOf(Catch(
           IF event'.call.op = "searchByIds"
           THEN OracleStatus(event'.status, rateLimitRef, now).thrown
           ELSE EnglishStatus(event'.status, rateLimitRef, now).thrown, Blank))
    [] event'.kind = "failed" -> OutcomeOf(Catch(event'.thrown, Blank))
    [] event'.kind = "data" ->
         OutcomeOf(Commit(event'.call, event'.data, {}, Blank))

\* C18 as stated: whatever an earlier resolution left, a resolution leaves
\* the results, error, cached and translatedName it leaves when run from
\* Blank on the same inputs.
ResolutionIsPure == [][Completes => Outcome' = ReferenceOutcome]_vars

\* C18 amended: the same, but for a resolution suspended because the
\* dictionary is loading, which leaves results and cached as the earlier
\* resolution left them (error and translatedName null).
ResolutionIsPureUnlessSuspended ==
  [][Completes
     => IF Suspends
        THEN /\ results' = results /\ cached' = cached
             /\ error' = Null /\ translatedName' = Null
        ELSE Outcome' = ReferenceOutcome]_vars

\* C18 witness: a call that failed over the results of an earlier
\* resolution, which are gone.
PureWitness ==
  event.kind = "failed" /\ event.leftover /\ results = <<>> /\ error # Null

\* The index of the first candidate with an id.
FirstWith(candidates, id) ==
  CHOOSE i \in 1..Len(candidates) :
    candidates[i].id = id /\ \A j \in 1..(i - 1) : candidates[j].id # id

\* C19. The ids a translated resolution sends to searchByIds are the ids of
\* its candidates, each once, in the order of their first candidates; the
\* map it builds gives each id the preferred name of its last candidate.
DistinctIdsLastNameWins ==
  \A c \in wire :
    c.case = "translated"
    => LET candidates == c.fuseResults
           ids == c.ids
           map == IdToPreferredMap(candidates)
       IN /\ c.op = "searchByIds"
          /\ \A i, j \in 1..Len(ids) : ids[i] = ids[j] => i = j
          /\ {ids[i] : i \in 1..Len(ids)}
               = {candidates[k].id : k \in 1..Len(candidates)}
          /\ \A i, j \in 1..Len(ids) :
               i < j => FirstWith(candidates, ids[i]) < FirstWith(candidates, ids[j])
          /\ DOMAIN map = {ids[i] : i \in 1..Len(ids)}
          /\ \A id \in DOMAIN map : map[id] = PreferredOf(candidates, id)

\* C19 witness: a request for two ids, one of them shared by two candidates
\* with different preferred names.
DistinctIdsWitness ==
  \E c \in wire :
    /\ c.case = "translated" /\ Len(c.ids) = 2
    /\ \E i, j \in 1..Len(c.fuseResults) :
         /\ i < j /\ c.fuseResults[i].id = c.fuseResults[j].id
         /\ c.fuseResults[i].preferred # c.fuseResults[j].preferred

\* C20. A 429 response to either operation leaves the rate-limit reference
\* blocked until 30 seconds after the response, whatever Retry-After it
\* carries, and the resolution fails with the rate-limit message; a response
\* with another status that is not 2xx fails with the HTTP error message
\* that carries the status, and leaves the reference as it was.
ThrottleBlocksThirtySeconds ==
  [][(event'.kind = "status" /\ ~Ok(event'.status))
     => /\ results' = <<>> /\ loading' = FALSE
        /\ IF event'.status = 429
           THEN /\ rateLimitRef' = [blocked |-> TRUE, until |-> now + 30 * 1000]
                /\ error' = "Troppe richieste. Attendi 30 secondi."
           ELSE /\ rateLimitRef' = rateLimitRef
                /\ error' = "Errore del server: HTTP error! status: "
                               \o ToString(event'.status)]_vars

\* C20 witness: a 429 response to searchByIds with Retry-After: 120, the
\* cooldown ending 30 seconds later.
ThrottleWitness ==
  /\ event.kind = "status" /\ event.status = 429 /\ event.hint = "120"
  /\ event.call.op = "searchByIds"
  /\ rateLimitRef = [blocked |-> TRUE, until |-> now + 30 * 1000]

\* The response item is a set (a collection), not a card.
SetItem(item) == "type" \in DOMAIN item /\ item.type = "set"

\* C21. In every state no result of type set carries originalName or
\* preferredName; as results are written from a response, the sets of an
\* English or fallback response stay sets without either property, and the
\* results of the translated case are the cards of the response only, its
\* sets being left out.
SetsCarryNoTranslation ==
  /\ \A i \in 1..Len(results) :
       results[i].type = "set"
       => /\ ~Carries(results[i], "originalName")
          /\ ~Carries(results[i], "preferredName")
  /\ (event.kind = "data" /\ Succeeded(event.data))
     => LET items == event.data.data.array
        IN IF event.call.case = "translated"
           THEN /\ Len(results)
                     = Cardinality({i \in 1..Len(items) : ~SetItem(items[i])})
                /\ \A i \in 1..Len(results) :
                     /\ results[i].type = "card"
                     /\ "code" \notin DOMAIN results[i]
                     /\ Carries(results[i], "printing_id")
           ELSE /\ Len(results) = Len(items)
                /\ \A i \in 1..Len(items) :
                     SetItem(items[i])
                     => /\ results[i].type = "set"
                        /\ ~Carries(results[i], "originalName")
                        /\ ~Carries(results[i], "preferredName")

\* C21 witness: a translated response with a set in it, shown without it.
SetFilteredWitness ==
  /\ event.kind = "data" /\ event.call.case = "translated"
  /\ Succeeded(event.data)
  /\ \E i \in 1..Len(event.data.data.array) : SetItem(event.data.data.array[i])
  /\ results # <<>>

\* The image of a card: its small one, else its front one, else its normal
\* one, else null.
Thumbnail(card) ==
  IF Truthy(Get(card, "image_uri_small")) THEN card.image_uri_small
  ELSE IF Truthy(Get(card, "front_image_url")) THEN card.front_image_url
       ELSE IF Truthy(Get(card, "image_uri_normal")) THEN card.image_uri_normal
            ELSE Null

\* C22. Each card searchByIds converts from a paginated body has as
\* image_uri_small the first there is of the card's small, front and normal
\* image, null when it has none.
ThumbnailPreference ==
  (event.kind = "data" /\ event.call.op = "searchByIds" /\ WrappedShape(event.body))
  => LET cards == event.body.data.data.array
         kept == {i \in 1..Len(cards) : /\ Truthy(Get(cards[i], "oracle_id"))
                                        /\ Truthy(Get(cards[i], "printing_id"))}
         out == event.data.data.array
     IN \A k \in 1..Len(out) :
          out[k].image_uri_small = Thumbnail(cards[Nth(kept, k)])

\* C22 witness: a body whose cards have a small image, a front and a normal
\* one, a normal one only, and none.
ThumbnailWitness ==
  /\ event.kind = "data" /\ event.call.op = "searchByIds"
  /\ WrappedShape(event.body)
  /\ {event.data.data.array[k].image_uri_small :
        k \in 1..Len(event.data.data.array)} = {"s.jpg", "f.jpg", "n.jpg", Null}

\* C24. Whenever the call of the current controller is in flight and its
\* signal is not aborted, loading is true: no completion of an earlier
\* resolution, its abort included, has cleared it.
LoadingWhileInFlight ==
  (\E c \in wire : c.ctl = abortControllerRef /\ c.ctl \notin aborted) => loading

\* C24 witness: a call in flight over the results of an earlier resolution.
InFlightWitness ==
  /\ \E c \in wire : c.ctl = abortControllerRef /\ c.ctl \notin aborted
  /\ loading /\ results # <<>> /\ event.kind = "search"

\* C25. In every state, an error comes with empty results and cached
\* false, and a translatedName comes with no error and with results that
\* are all cards of the translated case (each with its originalName).
ErrorAndLabelExclusive ==
  /\ error # Null => results = <<>> /\ cached = FALSE
  /\ translatedName # Null
     => /\ error = Null
        /\ \A i \in 1..Len(results) :
             /\ results[i].type = "card"
             /\ Carries(results[i], "originalName")
             /\ Carries(results[i], "printing_id")

\* C25 witness: translated cards under their label, reported as cached.
LabelWitness ==
  translatedName # Null /\ results # <<>> /\ cached /\ event.kind = "tick"

\* The call is the one a resolution of the current term makes under the
\* current language, loading flag and dictionary.
CurrentCall(c) ==
  LET plan == SearchPlan(selectedLang, isLangLoading, dictionary, term)
  IN /\ c.case = plan.case /\ c.fuseResults = plan.fuseResults
     /\ c.op = Operation(plan.case) /\ c.term = Str(Trim(term))

\* C26. A change of the language context that leaves the term as it is
\* writes no result, leaves no call in flight with a signal that is not
\* aborted, and leaves one pending timer, for the same term under the new
\* context; every call in flight, and so every answer that is committed,
\* belongs to a resolution made under the current context.
ContextChangeRestarts ==
  [][/\ event'.kind = "context"
        => /\ term' = term /\ Outcome' = Outcome
           /\ \A c \in wire' : c.ctl \in aborted'
           /\ Cardinality(timers') = 1
           /\ \A tm \in timers' :
                /\ tm.term = term /\ tm.lang = selectedLang'
                /\ tm.loading = isLangLoading' /\ tm.dict = dictionary'
     /\ \A c \in wire : c.ctl \notin aborted => CurrentCall(c)
     /\ event'.kind \in {"status", "failed", "data"}
        => CurrentCall(event'.call) /\ ~event'.call.superseded]_vars

\* C26 witness: a change of the context that found a call in flight, made
\* for a long enough term under another language.
ContextChangeWitness ==
  /\ event.kind = "context" /\ LongEnough
  /\ \E c \in event.rejected : c.case # SearchPlan(selectedLang, isLangLoading,
                                                    dictionary, term).case

\* C28. A resolution sends at most one request, as it starts: searchByIds
\* in the translated case, searchByTerm in the English case and in the
\* fallbacks; no answer makes it send another, a successful answer without
\* cards to searchByIds included.
OneRequestPerResolution ==
  [][/\ Cardinality(Sent) <= 1
     /\ Sent # {} => event'.kind = "search"
     /\ event'.kind = "search"
        => \A c \in Sent :
             c.op = IF SearchPlan(selectedLang, isLangLoading, dictionary,
                                  term).case = "translated"
                    THEN "searchByIds" ELSE "searchByTerm"
     /\ event'.kind \in {"status", "failed", "data"}
        => Sent = {} /\ Cardinality(wire') <= Cardinality(wire)]_vars

\* C28 witness: a successful answer to searchByIds without a card, after
\* which nothing is in flight.
NoCardsWitness ==
  /\ event.kind = "data" /\ event.call.op = "searchByIds"
  /\ Succeeded(event.data) /\ event.data.data.array = <<>>
  /\ wire = {} /\ results = <<>> /\ ~loading

\* C29. A call rejected by the cooldown check leaves the rate-limit
\* reference as it was, so that a blocked reference always ends its cooldown
\* 30 seconds after the last 429 response, however many calls were rejected
\* meanwhile.
RejectedCallKeepsCooldown ==
  [][/\ (event'.kind = "search" /\ event'.blocked) => rateLimitRef' = rateLimitRef
     /\ rateLimitRef'.blocked
        => rateLimitRef'.until = throttledAt' + 30 * 1000]_vars

\* C29 witness: a call rejected some time into the cooldown, which still
\* ends 30 seconds after the 429 response.
RejectedCallWitness ==
  /\ event.kind = "search" /\ event.blocked
  /\ throttledAt >= 0 /\ now > throttledAt
  /\ rateLimitRef = [blocked |-> TRUE, until |-> throttledAt + 30 * 1000]

\* C30. The message of a call rejected by the cooldown check reports n
\* seconds, n being the least whole number of seconds that covers the time
\* left until the end of the cooldown, and lying between 1 and 30.
SecondsRemainingRoundedUp ==
  [][(event'.kind = "search" /\ event'.blocked)
     => \E n \in 1..30 :
          /\ (n - 1) * 1000 < rateLimitRef.until - now
          /\ rateLimitRef.until - now <= n * 1000
          /\ error' = "Troppe richieste. Attendi " \o ToString(n) \o " secondi."]_vars

\* C30 witness: a call rejected 15.5 seconds before the end of the
\* cooldown, told to wait 16 seconds.
SecondsRemainingWitness ==
  /\ event.kind = "search" /\ event.blocked
  /\ rateLimitRef.until - now = 15500
  /\ error = "Troppe richieste. Attendi 16 secondi."

\* The term or the language context changes.
InputChanges ==
  \/ term' # term \/ selectedLang' # selectedLang
  \/ isLangLoading' # isLangLoading \/ dictionary' # dictionary

\* What the resolution that has just ended leaves when run from Blank.
EventOutcome ==
  CASE event.kind = "search" /\ event.blocked ->
         OutcomeOf(Catch(WaitError(rateLimitRef, now), Blank))
    [] event.kind = "status" ->
         OutcomeOf(Catch(IF event.status = 429 THEN RateLimitError(retryAfter)
                         ELSE HttpError(event.status), Blank))
    [] event.kind = "failed" -> OutcomeOf(Catch(event.thrown, Blank))
    [] event.kind = "data" -> OutcomeOf(Commit(event.call, event.data, {}, Blank))
    [] OTHER -> OutcomeOf(Blank)

\* A resolution of the current term under the current language context has
\* just ended, by the rejection of its call, its failure or its answer:
\* nothing is pending, loading is false and what is shown is its outcome.
ResolvedLast ==
  /\ ~loading /\ wire = {} /\ timers = {}
  /\ \/ /\ event.kind = "search" /\ event.blocked /\ event.term = term
        /\ event.case = SearchPlan(selectedLang, isLangLoading, dictionary,
                                   term).case
     \/ /\ event.kind = "status" /\ ~Ok(event.status) /\ CurrentCall(event.call)
     \/ /\ event.kind \in {"failed", "data"} /\ CurrentCall(event.call)
  /\ Outcome = EventOutcome

\* C23. Last debounced query wins: unless the term or the context keep
\* changing, or end up with a term that is too short, a dictionary that is
\* loading or the hook unmounted, every pending timer is followed by a
\* state in which a resolution of the current term has ended, loading is
\* false and its outcome is shown.
LastQueryWins ==
  \/ []<><<InputChanges>>_vars
  \/ <>[](isLangLoading \/ ~LongEnough \/ ~mounted)
  \/ (timers # {} ~> ResolvedLast)

\* C23 witness: the resolution of a term that replaced another one has
\* ended with results.
LastQueryWitness ==
  /\ ResolvedLast /\ event.kind = "data" /\ results # <<>>
  /\ term = <<"m", "a">> /\ selectedLang = "it"

\* The dictionary has just finished loading, after the timer of the
\* resolution that was suspended for it had fired.
Resumed ==
  /\ mounted /\ event.kind = "context" /\ event.loaded /\ event.cancelled = {}
  /\ selectedLang # "en" /\ ~isLangLoading /\ LongEnough

\* The term or the context changed again, or the hook was unmounted.
Interrupted ==
  \/ ~mounted
  \/ event.kind \in {"term", "context"} /\ ~event.loaded

\* C27. Once the dictionary has finished loading, a query suspended for it
\* is resolved: unless the term or the context change again (or the hook is
\* unmounted), a resolution of the term under the loaded context ends and
\* its outcome is shown.
SuspendedQueryResumes == Resumed ~> (ResolvedLast \/ Interrupted)

\* C27 witness: the dictionary finished loading after a resolution had been
\* suspended, its results of before still shown.
ResumedWitness == Resumed /\ ~loading /\ timers # {} /\ results # <<>>

====
